---- MODULE Spec2Model ----
(***************************************************************************)
(* A model of crates-ectype (src/src/main.rs): the index reader            *)
(* read_crate_index, the archive fetcher fetch_crates and the config       *)
(* updater replace_url.  Three specifications share the variables:         *)
(*   Spec        fetch_crates run (and re-run) against an archive          *)
(*   SpecIndex   read_crate_index over a stream of index files             *)
(*   SpecConfig  replace_url invocations on one config.json                *)
(***************************************************************************)
EXTENDS Integers, Sequences, FiniteSets, TLC

VARIABLES
    settings,             \* Settings: the flags of this command line
    crates,               \* fetch_crates: the BTreeSet<Crate> handed over
    archive0,             \* the archive directory before the first run
    fs,                   \* the archive directory: file name -> bytes
    pc,                   \* fetch_crates: position in the run
    idx,                  \* fetch_crates: position of the for loop in crates
    output,               \* fetch_crates: the reused byte buffer
    checksum_mismatches,  \* fetch_crates: deferred mismatches (c, hash)
    summary,              \* fetch_crates: the lines of the end-of-run warning
    transfers,            \* the transfers performed in this run
    opened,               \* files opened for reading in this run
    prev,                 \* how the previous run on this archive ended
    fs_start,             \* the archive directory when this run started
    ipc,                  \* read_crate_index: position
    lines_read,           \* read_crate_index: lines consumed of the current file
    taken,                \* line numbers of the current file handed to ret.insert
    ret,                  \* read_crate_index: the BTreeSet being built
    doc,                  \* config.json on disk: a JSON object, key -> value
    cpc,                  \* replace_url: position
    new_url,              \* replace_url: its argument
    config,               \* replace_url: the decoded ConfigJsonFile
    commits               \* commits made on the index repository

vars == <<settings, crates, archive0, fs, pc, idx, output, checksum_mismatches,
          summary, transfers, opened, prev, fs_start, ipc, lines_read, taken,
          ret,
          doc, cpc, new_url, config, commits>>

fetchVars == <<crates, archive0, fs, pc, idx, output, checksum_mismatches,
               summary, transfers, opened, prev, fs_start>>
indexVars == <<ipc, lines_read, taken, ret>>
configVars == <<doc, cpc, new_url, config, commits>>

----------------------------------------------------------------------------
(* Strings.  Rust compares String values byte by byte; Utf8 gives the      *)
(* bytes of the names and versions the model draws from.                   *)

Utf8(s) ==
    CASE s = "0.0.1" -> <<48, 46, 48, 46, 49>>
      [] s = "0.0.2" -> <<48, 46, 48, 46, 50>>
      [] s = "0.0.3" -> <<48, 46, 48, 46, 51>>
      [] s = "0.0.4" -> <<48, 46, 48, 46, 52>>
      [] s = "0.0.5" -> <<48, 46, 48, 46, 53>>
      [] s = "0.0.6" -> <<48, 46, 48, 46, 54>>
      [] s = "0.0.7" -> <<48, 46, 48, 46, 55>>
      [] s = "0.0.8" -> <<48, 46, 48, 46, 56>>
      [] s = "0.0.9" -> <<48, 46, 48, 46, 57>>
      [] s = "0.1.0" -> <<48, 46, 49, 46, 48>>
      [] s = "0.1.1" -> <<48, 46, 49, 46, 49>>
      [] s = "0.1.2" -> <<48, 46, 49, 46, 50>>
      [] s = "0.2.0" -> <<48, 46, 50, 46, 48>>
      [] s = "0.2.2" -> <<48, 46, 50, 46, 50>>
      [] s = "0.2.3" -> <<48, 46, 50, 46, 51>>
      [] s = "0.3.0" -> <<48, 46, 51, 46, 48>>
      [] s = "1.0.0" -> <<49, 46, 48, 46, 48>>
      [] s = "STD" -> <<83, 84, 68>>
      [] s = "bar" -> <<98, 97, 114>>
      [] s = "cargo-ctags" -> <<99, 97, 114, 103, 111, 45, 99, 116, 97, 103, 115>>
      [] s = "foo" -> <<102, 111, 111>>
      [] s = "glib-2-0-sys" -> <<103, 108, 105, 98, 45, 50, 45, 48, 45, 115, 121, 115>>
      [] s = "gobject-2-0-sys" -> <<103, 111, 98, 106, 101, 99, 116, 45, 50, 45, 48, 45, 115, 121, 115>>
      [] s = "ojfiewijogwhiogerhiugerhiuegr" -> <<111, 106, 102, 105, 101, 119, 105, 106, 111, 103, 119, 104, 105, 111, 103, 101, 114, 104, 105, 117, 103, 101, 114, 104, 105, 117, 101, 103, 114>>
      [] s = "rustbook" -> <<114, 117, 115, 116, 98, 111, 111, 107>>
      [] s = "stitch" -> <<115, 116, 105, 116, 99, 104>>
      [] s = "wright" -> <<119, 114, 105, 103, 104, 116>>

RECURSIVE BytesCmp(_, _)
BytesCmp(a, b) ==
    IF a = <<>> /\ b = <<>> THEN "Equal"
    ELSE IF a = <<>> THEN "Less"
    ELSE IF b = <<>> THEN "Greater"
    ELSE IF Head(a) < Head(b) THEN "Less"
    ELSE IF Head(a) > Head(b) THEN "Greater"
    ELSE BytesCmp(Tail(a), Tail(b))

StrCmp(s, t) == BytesCmp(Utf8(s), Utf8(t))

(* struct Crate and its impls *)
Crate(n, v, y, k) == [name |-> n, vers |-> v, yanked |-> y, cksum |-> k]

CrateNew(n, v) == Crate(n, v, TRUE, "")

CrateEq(a, b) == a.name = b.name /\ a.vers = b.vers

CrateCmp(a, b) ==
    IF StrCmp(a.name, b.name) = "Equal" THEN StrCmp(a.vers, b.vers)
    ELSE StrCmp(a.name, b.name)

(* An insert that replaces the element of the same Ord-equal class *)
BTreeInsertReplace(set, c) ==
    {x \in set : CrateCmp(x, c) # "Equal"} \cup {c}

(* BTreeSet<Crate>: a set with at most one element per Ord-equal class,    *)
(* iterated in ascending order.  insert leaves the set as it is when it    *)
(* holds an element equal to the new one.                                  *)
BTreeInsert(set, c) ==
    IF \E x \in set : CrateCmp(x, c) = "Equal" THEN set ELSE set \cup {c}

BTreeRemove(set, c) == {x \in set : CrateCmp(x, c) # "Equal"}

RECURSIVE BTreeIter(_)
BTreeIter(set) ==
    IF set = {} THEN <<>>
    ELSE LET m == CHOOSE x \in set :
                    \A y \in set : CrateCmp(x, y) # "Greater"
         IN  <<m>> \o BTreeIter(set \ {m})

----------------------------------------------------------------------------
(* sha256sum.  The digest is a table over the byte strings the model       *)
(* handles: the three real digests, and for NotFoundBody, which stands     *)
(* for the body of the registry's "not found" answer, the digest the       *)
(* source compares with.                                                   *)

NotFoundBody == <<4, 0, 4>>

NotFoundHash == "59d2652e67d6af1844f035488a12ecdd3c680554eff0bf982aad28814b5963a9"

sha256sum(data) ==
    CASE data = <<>>     -> "e3b0c44298fc1c149afbf4c8996fb92427ae41e4649b934ca495991b7852b855"
      [] data = <<0>>    -> "6e340b9cffb37a989ca544e6bb780a2c78901d3fb33738768511a30617afa01d"
      [] data = <<0, 1>> -> "b413f47d13ee2fe6c845b2ee141af81de858df4ec549a58b7970bb96645bc8d2"
      [] data = NotFoundBody -> NotFoundHash

(* What the Fetcher may answer with, and what an index may declare. *)
Payloads == {<<0>>, <<0, 1>>, NotFoundBody}

Cksums == {sha256sum(p) : p \in Payloads}

----------------------------------------------------------------------------
(* The archive directory *)

CrateName(c) == c.name \o "-" \o c.vers \o ".crate"

PartName(c) == CrateName(c) \o ".part"

Exists(path) == path \in DOMAIN fs

WriteFile(dir, path, data) ==
    [q \in DOMAIN dir \cup {path} |-> IF q = path THEN data ELSE dir[q]]

RemoveFile(dir, path) == [q \in DOMAIN dir \ {path} |-> dir[q]]

RenameFile(dir, from, to) == RemoveFile(WriteFile(dir, to, dir[from]), from)

(* The record sets and the archives a first run may meet.  The keys are   *)
(* such that CrateName gives each record a file name of its own; no        *)
(* .part file is there at first: one is left only by a killed run, which   *)
(* Crash and Rerun produce.                                                *)
FetchKeys == {<<"bar", "0.1.0">>, <<"foo", "1.0.0">>}

CrateSets ==
    {S \in SUBSET {Crate(k[1], k[2], FALSE, h) : k \in FetchKeys, h \in Cksums} :
        \A a, b \in S : CrateEq(a, b) => a = b}

InitialContents == {<<0>>, <<0, 1>>}

Archives(set) ==
    UNION {[D -> InitialContents] : D \in SUBSET {CrateName(c) : c \in set}}

(* Settings, as far as the three functions read them *)
SettingsOf(cs, sm, dy, do) ==
    [check_sums |-> cs, strict_mode |-> sm, download_yanked |-> dy, download_old |-> do]

(* The other two functions at rest *)
IndexIdle ==
    /\ ipc = "idle"
    /\ lines_read = <<>>
    /\ taken = {}
    /\ ret = {}

(* struct ConfigJsonFile; an Option is <<>> for None and <<x>> for Some(x) *)
ConfigJsonFile(dl, api, dl_orig) == [dl |-> dl, api |-> api, dl_orig |-> dl_orig]

ConfigIdle ==
    /\ doc = <<>>
    /\ cpc = "idle"
    /\ new_url = ""
    /\ config = ConfigJsonFile("", "", <<>>)
    /\ commits = 0

----------------------------------------------------------------------------
(* fetch_crates *)

Running == pc \in {"loop", "downloaded", "create", "write", "rename"}

Iter == BTreeIter(crates)

InLoop == pc = "loop" /\ idx <= Len(Iter)

Cur == Iter[idx]

StartRun ==
    /\ pc' = "loop"
    /\ idx' = 1
    /\ output' = <<>>
    /\ checksum_mismatches' = <<>>
    /\ summary' = <<>>
    /\ transfers' = {}
    /\ opened' = {}

Init ==
    /\ settings \in {SettingsOf(cs, sm, FALSE, FALSE) : cs, sm \in BOOLEAN}
    /\ crates \in CrateSets
    /\ archive0 \in Archives(crates)
    /\ fs = archive0
    /\ pc = "loop"
    /\ idx = 1
    /\ output = <<>>
    /\ checksum_mismatches = <<>>
    /\ summary = <<>>
    /\ transfers = {}
    /\ opened = {}
    /\ prev = "none"
    /\ fs_start = archive0
    /\ IndexIdle
    /\ ConfigIdle

(* What fetch_crates never touches *)
FetchFrame == UNCHANGED <<settings, crates, archive0, indexVars, configVars>>

(* Mutant: the digest of an existing file is never compared. *)
ExistingCrateUnverified ==
    /\ InLoop
    /\ Exists(CrateName(Cur))
    /\ pc' = "loop"
    /\ idx' = idx + 1
    /\ UNCHANGED <<fs, output, opened, checksum_mismatches, summary, transfers, prev, fs_start>>
    /\ FetchFrame

(* Mutant: outside strict mode a mismatch of an existing file is deferred, *)
(* as it is for a download.                                                *)
ExistingCrateDeferred ==
    /\ InLoop
    /\ Exists(CrateName(Cur))
    /\ IF settings.check_sums
       THEN /\ opened' = opened \cup {CrateName(Cur)}
            /\ output' = fs[CrateName(Cur)]
            /\ IF sha256sum(fs[CrateName(Cur)]) # Cur.cksum
               THEN IF settings.strict_mode
                    THEN pc' = "exited" /\ UNCHANGED <<idx, checksum_mismatches>>
                    ELSE /\ checksum_mismatches' =
                              Append(checksum_mismatches,
                                     <<Cur, sha256sum(fs[CrateName(Cur)])>>)
                         /\ pc' = "loop"
                         /\ idx' = idx + 1
               ELSE pc' = "loop" /\ idx' = idx + 1 /\ UNCHANGED checksum_mismatches
       ELSE /\ pc' = "loop"
            /\ idx' = idx + 1
            /\ UNCHANGED <<output, opened, checksum_mismatches>>
    /\ UNCHANGED <<fs, summary, transfers, prev, fs_start>>
    /\ FetchFrame

(* lines 459-489: the final file exists *)
ExistingCrate ==
    /\ InLoop
    /\ Exists(CrateName(Cur))
    /\ IF settings.check_sums
       THEN \E io_ok \in BOOLEAN :
              /\ opened' = opened \cup {CrateName(Cur)}
              /\ IF ~io_ok
                 THEN /\ pc' = "exited"
                      /\ output' = <<>>
                      /\ idx' = idx
                 ELSE /\ output' = fs[CrateName(Cur)]
                      /\ IF sha256sum(fs[CrateName(Cur)]) # Cur.cksum
                         THEN pc' = "exited" /\ idx' = idx
                         ELSE pc' = "loop" /\ idx' = idx + 1
       ELSE /\ pc' = "loop"
            /\ idx' = idx + 1
            /\ UNCHANGED <<output, opened>>
    /\ UNCHANGED <<fs, checksum_mismatches, summary, transfers, prev, fs_start>>
    /\ FetchFrame

(* Mutant: the loop does not `continue` past an existing file. *)
FetchCrateAlways ==
    /\ InLoop
    /\ \E body \in Payloads :
         /\ output' = body
         /\ transfers' = transfers \cup {[crate |-> Cur, ok |-> TRUE, body |-> body]}
         /\ pc' = "downloaded"
    /\ UNCHANGED <<fs, idx, checksum_mismatches, summary, opened, prev, fs_start>>
    /\ FetchFrame

(* lines 491-512: the transfer, which ends in an error or with a body *)
Transfer(c, ok, body) == [crate |-> c, ok |-> ok, body |-> body]

(* Mutant: a leftover .part file is read back in place of a transfer. *)
FetchCrateResume ==
    /\ InLoop
    /\ ~Exists(CrateName(Cur))
    /\ IF Exists(PartName(Cur))
       THEN /\ output' = fs[PartName(Cur)]
            /\ opened' = opened \cup {PartName(Cur)}
            /\ transfers' = transfers
            /\ pc' = "downloaded"
       ELSE /\ opened' = opened
            /\ \E ok \in BOOLEAN :
                 IF ok
                 THEN \E body \in Payloads :
                        /\ output' = body
                        /\ transfers' = transfers \cup {Transfer(Cur, TRUE, body)}
                        /\ pc' = "downloaded"
                 ELSE /\ output' = <<>>
                      /\ transfers' = transfers \cup {Transfer(Cur, FALSE, <<>>)}
                      /\ pc' = "exited"
    /\ UNCHANGED <<fs, idx, checksum_mismatches, summary, prev, fs_start>>
    /\ FetchFrame

FetchCrate ==
    /\ InLoop
    /\ ~Exists(CrateName(Cur))
    /\ \E ok \in BOOLEAN :
         IF ok
         THEN \E body \in Payloads :
                /\ output' = body
                /\ transfers' = transfers \cup {Transfer(Cur, TRUE, body)}
                /\ pc' = "downloaded"
         ELSE /\ output' = <<>>
              /\ transfers' = transfers \cup {Transfer(Cur, FALSE, <<>>)}
              /\ pc' = "exited"
    /\ UNCHANGED <<fs, idx, checksum_mismatches, summary, opened, prev, fs_start>>
    /\ FetchFrame

(* Mutant: the declared checksum is compared first, the sentinel never. *)
VerifyDownloadNoSentinel ==
    /\ pc = "downloaded"
    /\ LET hash == sha256sum(output) IN
         IF hash # Cur.cksum
         THEN IF settings.strict_mode
              THEN pc' = "exited" /\ UNCHANGED <<idx, checksum_mismatches>>
              ELSE /\ checksum_mismatches' = Append(checksum_mismatches, <<Cur, hash>>)
                   /\ idx' = idx + 1
                   /\ pc' = "loop"
         ELSE pc' = "create" /\ UNCHANGED <<idx, checksum_mismatches>>
    /\ UNCHANGED <<fs, output, summary, transfers, opened, prev, fs_start>>
    /\ FetchFrame

(* Mutant: a deferred mismatch does not `continue`: the file is written. *)
VerifyDownloadNoContinue ==
    /\ pc = "downloaded"
    /\ LET hash == sha256sum(output) IN
         IF hash = NotFoundHash
         THEN pc' = "exited" /\ UNCHANGED <<idx, checksum_mismatches>>
         ELSE IF hash # Cur.cksum
         THEN IF settings.strict_mode
              THEN pc' = "exited" /\ UNCHANGED <<idx, checksum_mismatches>>
              ELSE /\ checksum_mismatches' = Append(checksum_mismatches, <<Cur, hash>>)
                   /\ idx' = idx
                   /\ pc' = "create"
         ELSE pc' = "create" /\ UNCHANGED <<idx, checksum_mismatches>>
    /\ UNCHANGED <<fs, output, summary, transfers, opened, prev, fs_start>>
    /\ FetchFrame

(* lines 514-538: the digest of what was received *)
VerifyDownload ==
    /\ pc = "downloaded"
    /\ LET hash == sha256sum(output) IN
         IF hash = NotFoundHash
         THEN pc' = "exited" /\ UNCHANGED <<idx, checksum_mismatches>>
         ELSE IF hash # Cur.cksum
         THEN IF settings.strict_mode
              THEN pc' = "exited" /\ UNCHANGED <<idx, checksum_mismatches>>
              ELSE /\ checksum_mismatches' = Append(checksum_mismatches, <<Cur, hash>>)
                   /\ idx' = idx + 1
                   /\ pc' = "loop"
         ELSE pc' = "create" /\ UNCHANGED <<idx, checksum_mismatches>>
    /\ UNCHANGED <<fs, output, summary, transfers, opened, prev, fs_start>>
    /\ FetchFrame

(* lines 540-547: File::create of the .part file *)
CreatePart ==
    /\ pc = "create"
    /\ \E io_ok \in BOOLEAN :
         IF io_ok
         THEN fs' = WriteFile(fs, PartName(Cur), <<>>) /\ pc' = "write"
         ELSE fs' = fs /\ pc' = "exited"
    /\ UNCHANGED <<idx, output, checksum_mismatches, summary, transfers, opened, prev, fs_start>>
    /\ FetchFrame

(* Mutant: write in place of write_all: one piece, then on to the rename. *)
WriteAllShort ==
    /\ pc = "write"
    /\ \E n \in 0..Len(output) :
         /\ fs' = WriteFile(fs, PartName(Cur), SubSeq(output, 1, n))
         /\ pc' = "rename"
    /\ UNCHANGED <<idx, output, checksum_mismatches, summary, transfers, opened, prev, fs_start>>
    /\ FetchFrame

(* lines 549-554: write_all, which writes the buffer in one or more pieces *)
WriteAll ==
    /\ pc = "write"
    /\ LET written == Len(fs[PartName(Cur)]) IN
         IF written = Len(output)
         THEN fs' = fs /\ pc' = "rename"
         ELSE \/ \E n \in (written + 1)..Len(output) :
                   /\ fs' = WriteFile(fs, PartName(Cur), SubSeq(output, 1, n))
                   /\ pc' = "write"
              \/ fs' = fs /\ pc' = "exited"
    /\ UNCHANGED <<idx, output, checksum_mismatches, summary, transfers, opened, prev, fs_start>>
    /\ FetchFrame

(* lines 557-565: fs::rename of the .part file to the final name *)
Rename ==
    /\ pc = "rename"
    /\ \E io_ok \in BOOLEAN :
         IF io_ok
         THEN /\ fs' = RenameFile(fs, PartName(Cur), CrateName(Cur))
              /\ idx' = idx + 1
              /\ pc' = "loop"
         ELSE fs' = fs /\ idx' = idx /\ pc' = "exited"
    /\ UNCHANGED <<output, checksum_mismatches, summary, transfers, opened, prev, fs_start>>
    /\ FetchFrame

(* lines 568-581: the end-of-run warning *)
SummaryLine(m) == <<m[1].name, m[1].vers, m[1].cksum, m[2]>>

Summary ==
    /\ pc = "loop"
    /\ idx > Len(Iter)
    /\ summary' = IF ~settings.strict_mode
                  THEN [i \in 1..Len(checksum_mismatches) |->
                           SummaryLine(checksum_mismatches[i])]
                  ELSE <<>>
    /\ pc' = "done"
    /\ UNCHANGED <<fs, idx, output, checksum_mismatches, transfers, opened, prev, fs_start>>
    /\ FetchFrame

(* The process is killed, at any point of the run *)
Crash ==
    /\ Running
    /\ pc' = "crashed"
    /\ UNCHANGED <<fs, idx, output, checksum_mismatches, summary, transfers, opened, prev, fs_start>>
    /\ FetchFrame

(* main, lines 238-240: the program is run again on the same archive *)
Outcome ==
    IF pc = "done"
    THEN IF checksum_mismatches = <<>> THEN "complete" ELSE "deferred"
    ELSE pc

Rerun ==
    /\ pc \in {"done", "exited", "crashed"}
    /\ prev' = Outcome
    /\ fs_start' = fs
    /\ StartRun
    /\ UNCHANGED fs
    /\ FetchFrame

Next ==
    \/ ExistingCrate
    \/ FetchCrate
    \/ VerifyDownload
    \/ CreatePart
    \/ WriteAll
    \/ Rename
    \/ Summary
    \/ Crash
    \/ Rerun

Spec == Init /\ [][Next]_vars

----------------------------------------------------------------------------
(* Properties of fetch_crates, under Spec *)

FinalOk(c) == sha256sum(fs[CrateName(c)]) = c.cksum

Created(c) == Exists(CrateName(c)) /\ CrateName(c) \notin DOMAIN archive0

Deferred == {checksum_mismatches[i][1] : i \in 1..Len(checksum_mismatches)}

(* C1: at every moment of every run, crash or fatal exit included, the     *)
(* final file of a record is absent, or is the file the archive held       *)
(* before the program first ran, byte for byte, or holds bytes whose       *)
(* digest is the record's declared checksum: no partial or wrong content   *)
(* ever appears under the final name.                                      *)
C1_AtomicFinalFile ==
    \A c \in crates :
        Exists(CrateName(c)) =>
            \/ /\ CrateName(c) \in DOMAIN archive0
               /\ fs[CrateName(c)] = archive0[CrateName(c)]
            \/ FinalOk(c)

(* C1 witness: the process was killed with a partly written .part file of  *)
(* one record, its final file absent, after the final file of another      *)
(* record was created.                                                     *)
C1_Witness ==
    /\ pc = "crashed"
    /\ \E c, d \in crates :
         /\ Exists(PartName(c))
         /\ ~Exists(CrateName(c))
         /\ Len(fs[PartName(c)]) < Len(output)
         /\ fs[PartName(c)] # <<>>
         /\ Created(d)

(* C2 as stated: in a run with check_sums that follows a run which ended   *)
(* without a fatal exit, no transfer is performed and no file of the       *)
(* archive changes.                                                        *)
C2_Original ==
    [][(settings.check_sums /\ prev \in {"complete", "deferred"} /\ Running)
          => (transfers' = {} /\ fs' = fs)]_vars

(* C2 amended: in a run with check_sums that follows a run which ended     *)
(* without a fatal exit and without a deferred checksum mismatch, no       *)
(* transfer is performed and no file of the archive changes.               *)
C2_Idempotent ==
    [][(settings.check_sums /\ prev = "complete" /\ Running)
          => (transfers' = {} /\ fs' = fs)]_vars

(* C2 witness: a second run with check_sums has completed after a first    *)
(* run that downloaded a file: it opened and verified every final file.    *)
C2_Witness ==
    /\ settings.check_sums
    /\ prev = "complete"
    /\ pc = "done"
    /\ Cardinality(crates) = 2
    /\ opened = {CrateName(c) : c \in crates}
    /\ \E c \in crates : Created(c)

(* C3 as stated: when a run completes, every existing final file of a      *)
(* selected record has the declared digest, and every selected record      *)
(* outside the deferred mismatch list has such a file.                     *)
C3_Original ==
    pc = "done" =>
        \A c \in crates :
            /\ Exists(CrateName(c)) => FinalOk(c)
            /\ c \notin Deferred => (Exists(CrateName(c)) /\ FinalOk(c))

(* C3 amended: when a run completes, every selected record outside the     *)
(* deferred mismatch list has a file under its final name, and every       *)
(* existing final file of a selected record has the declared digest if     *)
(* check_sums is set or the file was not in the archive before the         *)
(* program ran (the program created it).                                   *)
C3_Postcondition ==
    pc = "done" =>
        \A c \in crates :
            /\ c \notin Deferred => Exists(CrateName(c))
            /\ (Exists(CrateName(c)) /\ (settings.check_sums \/ Created(c)))
                   => FinalOk(c)

(* C3 witness: a run without check_sums completed; it skipped a file that  *)
(* was there before, created another and deferred nothing.                 *)
C3_Witness ==
    /\ pc = "done"
    /\ ~settings.check_sums
    /\ Deferred = {}
    /\ \E c, d \in crates :
         /\ CrateName(c) \in DOMAIN archive0
         /\ Created(d)

(* C6: when the digest of the received payload is the "not found" digest,  *)
(* the next step ends the run (the fatal exit, unless the process is       *)
(* killed first), in strict and in non-strict mode and whatever checksum   *)
(* the record declares; nothing is deferred, and neither that step nor     *)
(* the transfer before it changes any file of the archive.                 *)
C6_SentinelFatal ==
    [][/\ (pc = "downloaded" /\ sha256sum(output) = NotFoundHash)
            => /\ pc' \in {"exited", "crashed"}
               /\ fs' = fs
               /\ checksum_mismatches' = checksum_mismatches
       /\ (InLoop /\ ~Exists(CrateName(Cur))) => fs' = fs]_vars

(* C6 witness: outside strict mode a record that declares the "not found"  *)
(* digest received the "not found" body, and the run exited.               *)
C6_Witness ==
    /\ pc = "exited"
    /\ ~settings.strict_mode
    /\ idx <= Len(Iter)
    /\ Cur.cksum = NotFoundHash
    /\ Transfer(Cur, TRUE, NotFoundBody) \in transfers
    /\ output = NotFoundBody

(* The transfers of this run whose body has neither the declared digest    *)
(* nor the "not found" digest.                                             *)
Mismatched ==
    {t \in transfers : /\ t.ok
                       /\ sha256sum(t.body) # t.crate.cksum
                       /\ sha256sum(t.body) # NotFoundHash}

(* C7: outside strict mode, the step after receiving a payload whose       *)
(* digest is neither the declared one nor the "not found" one changes no   *)
(* file, defers the record and goes on to the next record (unless the      *)
(* process is killed); and when the run is done the record has no final    *)
(* file and the summary holds exactly one line (name, version, expected,   *)
(* actual) per such transfer.                                              *)
C7_DeferredMismatch ==
    [][/\ (/\ pc = "downloaded"
           /\ ~settings.strict_mode
           /\ sha256sum(output) # Cur.cksum
           /\ sha256sum(output) # NotFoundHash)
            => \/ pc' = "crashed" /\ fs' = fs
               \/ /\ pc' = "loop"
                  /\ idx' = idx + 1
                  /\ fs' = fs
                  /\ checksum_mismatches' =
                         Append(checksum_mismatches, <<Cur, sha256sum(output)>>)
       /\ (pc' = "done" /\ ~settings.strict_mode)
            => /\ {summary'[i] : i \in 1..Len(summary')} =
                     {<<t.crate.name, t.crate.vers, t.crate.cksum, sha256sum(t.body)>> :
                         t \in Mismatched'}
               /\ Len(summary') = Cardinality(Mismatched')
               /\ \A t \in Mismatched' : CrateName(t.crate) \notin DOMAIN fs']_vars

(* C7 witness: a non-strict run is done; its first record was deferred,    *)
(* its second record was downloaded and saved after it.                    *)
C7_Witness ==
    /\ pc = "done"
    /\ ~settings.strict_mode
    /\ Cardinality(crates) = 2
    /\ Len(summary) = 1
    /\ summary[1][1] = Iter[1].name
    /\ Transfer(Iter[2], TRUE, <<0, 1>>) \in transfers
    /\ Created(Iter[2])

(* C10: when the final file of the record at hand exists, the step taken   *)
(* changes no file, performs no transfer and defers nothing; with          *)
(* check_sums a digest mismatch ends the run, in strict and in non-strict  *)
(* mode; without check_sums the file is not opened, the buffer is left     *)
(* alone and the loop goes on; and no step of any run transfers a record   *)
(* whose final file exists or changes an existing final file.              *)
C10_ExistingFile ==
    [][/\ (InLoop /\ Exists(CrateName(Cur)))
            => /\ fs' = fs
               /\ transfers' = transfers
               /\ checksum_mismatches' = checksum_mismatches
               /\ (settings.check_sums /\ ~FinalOk(Cur))
                     => pc' \in {"exited", "crashed"}
               /\ ~settings.check_sums
                     => /\ opened' = opened
                        /\ output' = output
                        /\ \/ pc' = "crashed"
                           \/ pc' = "loop" /\ idx' = idx + 1
       /\ \A t \in transfers' \ transfers : ~Exists(CrateName(t.crate))
       /\ \A c \in crates :
            Exists(CrateName(c))
               => /\ CrateName(c) \in DOMAIN fs'
                  /\ fs'[CrateName(c)] = fs[CrateName(c)]]_vars

(* C10 witness: outside strict mode, with check_sums, an existing final    *)
(* file was opened, its digest differed, and the run exited with nothing   *)
(* deferred and nothing transferred for it.                                *)
C10_Witness ==
    /\ pc = "exited"
    /\ settings.check_sums
    /\ ~settings.strict_mode
    /\ idx <= Len(Iter)
    /\ Exists(CrateName(Cur))
    /\ ~FinalOk(Cur)
    /\ CrateName(Cur) \in opened
    /\ checksum_mismatches = <<>>
    /\ \A t \in transfers : t.crate # Cur

(* The records without a final file when this run started, and the        *)
(* records this run has made a transfer for.                               *)
MissingAtStart == {c \in crates : CrateName(c) \notin DOMAIN fs_start}

Transferred == {t.crate : t \in transfers}

(* Every transfer of this run ended with the bytes of the declared digest *)
CorrectPayloads ==
    \A t \in transfers : t.ok /\ sha256sum(t.body) = t.crate.cksum

CorrectPayload(c) == CHOOSE body \in Payloads : sha256sum(body) = c.cksum

(* The archive of a run that is not interrupted and is served correct      *)
(* payloads: what was there before stays, every other record has its      *)
(* final file with the bytes of its declared digest, and there is no       *)
(* .part file.                                                             *)
UninterruptedArchive ==
    [q \in DOMAIN archive0 \cup {CrateName(c) : c \in crates} |->
        IF q \in DOMAIN archive0 THEN archive0[q]
        ELSE CorrectPayload(CHOOSE c \in crates : CrateName(c) = q)]

(* C12: a run that reaches its end with every transfer correct leaves      *)
(* UninterruptedArchive, whether it is the first run or a run after a      *)
(* crash; and in a run after a crash, transfers are made only for records  *)
(* whose final file was missing when the run started, once per record,     *)
(* and for every such record when the run reaches its end; no .part file   *)
(* is opened for reading; a .part file being written holds a prefix of     *)
(* the buffer just downloaded, and the whole buffer at the rename.         *)
C12_Resumable ==
    /\ (pc = "done" /\ CorrectPayloads) => fs = UninterruptedArchive
    /\ prev = "crashed" =>
         /\ Transferred \subseteq MissingAtStart
         /\ Cardinality(transfers) = Cardinality(Transferred)
         /\ pc = "done" => Transferred = MissingAtStart
         /\ \A c \in crates : PartName(c) \notin opened
         /\ pc \in {"write", "rename"} =>
               /\ Exists(PartName(Cur))
               /\ fs[PartName(Cur)] = SubSeq(output, 1, Len(fs[PartName(Cur)]))
               /\ pc = "rename" => fs[PartName(Cur)] = output

(* C12 witness: the run before was killed after it had created one         *)
(* record's final file and while the other's .part file held bytes; this   *)
(* run transferred the second record only, was served the correct payload  *)
(* and reached its end, and the leftover .part file is gone.               *)
C12_Witness ==
    /\ prev = "crashed"
    /\ pc = "done"
    /\ CorrectPayloads
    /\ \E c, d \in crates :
         /\ PartName(c) \in DOMAIN fs_start
         /\ fs_start[PartName(c)] # <<>>
         /\ Transferred = {c}
         /\ ~Exists(PartName(c))
         /\ FinalOk(c)
         /\ Created(d)
         /\ CrateName(d) \in DOMAIN fs_start

----------------------------------------------------------------------------
(* read_crate_index.  The index is read as a stream: the walk hands over   *)
(* one file after the other, in the order of the directory walk, and each  *)
(* file one line after the other; peeking tells whether a line follows.    *)
(* The files are those left by the filter of lines 337-349 (no hidden      *)
(* file, not config.json, regular files only).                             *)

(* The longest index file read *)
MaxLines == 2

(* The lines an index file may hold: a JSON object with the four fields    *)
(* of Crate and the fields the decoder drops, or text that is not JSON.    *)
IndexKeys == {<<"foo", "0.1.0">>, <<"foo", "1.0.0">>, <<"stitch", "0.1.0">>}

IndexLine(n, v, y, k) ==
    [name |-> n, vers |-> v, yanked |-> y, cksum |-> k, deps |-> <<>>, json |-> TRUE]

NotJson ==
    [name |-> "", vers |-> "", yanked |-> FALSE, cksum |-> "", deps |-> <<>>, json |-> FALSE]

IndexLines ==
    {IndexLine(k[1], k[2], y, sha256sum(<<0>>)) : k \in IndexKeys, y \in BOOLEAN}
    \cup {IndexLine("foo", "1.0.0", y, sha256sum(<<0, 1>>)) : y \in BOOLEAN}
    \cup {NotJson}

(* json::decode into a Crate, line 375 *)
Decode(line) == Crate(line.name, line.vers, line.yanked, line.cksum)

(* lines 385-386: is the record of this line inserted *)
SelectedAnywhere(c, is_last) == settings.download_yanked \/ c.yanked = FALSE

Selected(c, is_last) ==
    /\ (settings.download_yanked \/ c.yanked = FALSE)
    /\ (settings.download_old \/ is_last)

(* lines 397-430 *)
unavailable_crates ==
    <<CrateNew("STD", "0.1.0"),
      CrateNew("glib-2-0-sys", "0.0.1"),
      CrateNew("glib-2-0-sys", "0.0.2"),
      CrateNew("glib-2-0-sys", "0.0.3"),
      CrateNew("glib-2-0-sys", "0.0.4"),
      CrateNew("glib-2-0-sys", "0.0.5"),
      CrateNew("glib-2-0-sys", "0.0.6"),
      CrateNew("glib-2-0-sys", "0.0.7"),
      CrateNew("glib-2-0-sys", "0.0.8"),
      CrateNew("glib-2-0-sys", "0.1.0"),
      CrateNew("glib-2-0-sys", "0.1.1"),
      CrateNew("glib-2-0-sys", "0.1.2"),
      CrateNew("glib-2-0-sys", "0.2.0"),
      CrateNew("gobject-2-0-sys", "0.0.2"),
      CrateNew("gobject-2-0-sys", "0.0.3"),
      CrateNew("gobject-2-0-sys", "0.0.4"),
      CrateNew("gobject-2-0-sys", "0.0.5"),
      CrateNew("gobject-2-0-sys", "0.0.6"),
      CrateNew("gobject-2-0-sys", "0.0.7"),
      CrateNew("gobject-2-0-sys", "0.0.8"),
      CrateNew("gobject-2-0-sys", "0.0.9"),
      CrateNew("gobject-2-0-sys", "0.1.0"),
      CrateNew("gobject-2-0-sys", "0.2.0"),
      CrateNew("ojfiewijogwhiogerhiugerhiuegr", "0.1.0"),
      CrateNew("ojfiewijogwhiogerhiugerhiuegr", "0.1.1"),
      CrateNew("ojfiewijogwhiogerhiugerhiuegr", "0.1.2"),
      CrateNew("rustbook", "0.1.0"),
      CrateNew("rustbook", "0.2.0"),
      CrateNew("rustbook", "0.3.0"),
      CrateNew("cargo-ctags", "0.2.3"),
      CrateNew("wright", "0.2.2"),
      CrateNew("stitch", "0.1.0")>>

RECURSIVE RemoveAll(_, _)
RemoveAllByValue(set, list) == set \ {list[i] : i \in 1..Len(list)}

RemoveAll(set, list) ==
    IF list = <<>> THEN set
    ELSE RemoveAll(BTreeRemove(set, Head(list)), Tail(list))

IndexFrame == UNCHANGED <<settings, fetchVars, configVars>>

FetchIdle ==
    /\ crates = {}
    /\ archive0 = <<>>
    /\ fs = <<>>
    /\ pc = "idle"
    /\ idx = 1
    /\ output = <<>>
    /\ checksum_mismatches = <<>>
    /\ summary = <<>>
    /\ transfers = {}
    /\ opened = {}
    /\ prev = "none"
    /\ fs_start = <<>>

IndexInit ==
    /\ settings \in {SettingsOf(TRUE, FALSE, dy, do) : dy, do \in BOOLEAN}
    /\ ipc = "walk"
    /\ lines_read = <<>>
    /\ taken = {}
    /\ ret = {}
    /\ FetchIdle
    /\ ConfigIdle

(* lines 335-360: the walk yields the next file; it is opened, and is      *)
(* empty or not                                                            *)
OpenFile ==
    /\ ipc = "walk"
    /\ lines_read' = <<>>
    /\ taken' = {}
    /\ \E io_ok, empty \in BOOLEAN :
         ipc' = IF ~io_ok THEN "exited" ELSE IF empty THEN "walk" ELSE "lines"
    /\ UNCHANGED ret
    /\ IndexFrame

(* lines 361-389: one turn of the loop over the lines of a file *)
ReadLine ==
    /\ ipc = "lines"
    /\ \E line \in IndexLines, io_ok, is_last \in BOOLEAN :
         /\ Len(lines_read) + 1 = MaxLines => is_last
         /\ IF ~io_ok \/ ~line.json
            THEN /\ ipc' = "exited"
                 /\ UNCHANGED <<lines_read, taken, ret>>
            ELSE /\ lines_read' = Append(lines_read, line)
                 /\ IF Selected(Decode(line), is_last)
                    THEN /\ ret' = BTreeInsert(ret, Decode(line))
                         /\ taken' = taken \cup {Len(lines_read) + 1}
                    ELSE UNCHANGED <<ret, taken>>
                 /\ ipc' = IF is_last THEN "walk" ELSE "lines"
    /\ IndexFrame

(* lines 392-436: the walk is over; the unavailable crates are removed *)
RemoveUnavailable ==
    /\ ipc = "walk"
    /\ ret' = RemoveAll(ret, unavailable_crates)
    /\ ipc' = "done"
    /\ UNCHANGED <<lines_read, taken>>
    /\ IndexFrame

IndexNext ==
    \/ OpenFile
    \/ ReadLine
    \/ RemoveUnavailable

SpecIndex == IndexInit /\ [][IndexNext]_vars

----------------------------------------------------------------------------
(* Properties of read_crate_index, under SpecIndex *)

Unavailable(c) ==
    \E i \in 1..Len(unavailable_crates) : CrateEq(c, unavailable_crates[i])

LastLine == lines_read[Len(lines_read)]

(* C4: whatever the index holds and whatever the two flags are, the set    *)
(* read_crate_index returns is the set it built without the records whose  *)
(* (name, version) is in the list of unavailable crates: none of those     *)
(* pairs is returned, and nothing else is removed.                         *)
C4_DenyList ==
    [][ipc' = "done"
          => /\ \A c \in ret' : ~Unavailable(c)
             /\ ret' = {c \in ret : ~Unavailable(c)}]_vars

(* C4 witness: the last line read was stitch 0.1.0, it was inserted, and   *)
(* the set returned holds another record but not this one.                 *)
C4_Witness ==
    /\ ipc = "done"
    /\ lines_read # <<>>
    /\ LastLine.name = "stitch" /\ LastLine.vers = "0.1.0"
    /\ Len(lines_read) \in taken
    /\ ret # {}
    /\ \A c \in ret : c.name = "foo"

(* C5: without download_old, only the last line of a file is handed to     *)
(* ret.insert, so a file adds at most one record and that record is its    *)
(* last line's; the last line is handed over exactly if it is not yanked   *)
(* or download_yanked is set, so a file whose last line is yanked adds     *)
(* nothing without download_yanked, whatever its earlier lines are.        *)
C5_LastLineOnly ==
    [][~settings.download_old
          => /\ (ret' \ ret) \subseteq {Decode(lines_read'[n]) : n \in taken'}
             /\ taken' \subseteq {Len(lines_read')} \ {0}
             /\ ipc' \in {"lines", "exited"} => taken' = {}
             /\ (ipc' \in {"walk", "done"} /\ lines_read' # <<>>)
                   => (taken' # {} <=>
                         (settings.download_yanked \/ ~LastLine'.yanked))]_vars

(* C5 witness: the first file read had a line that is not yanked and then  *)
(* a last line that is yanked; without download_yanked nothing of it was   *)
(* taken.                                                                  *)
C5_Witness ==
    /\ ~settings.download_old
    /\ ~settings.download_yanked
    /\ ipc = "walk"
    /\ Len(lines_read) = 2
    /\ ~lines_read[1].yanked
    /\ lines_read[2].yanked
    /\ taken = {}
    /\ ret = {}

(* The key (name, vers) of Decode(line) was in the set before the line was *)
(* handed to ret.insert.                                                   *)
KeyHeld(set, line) == \E x \in set : CrateEq(x, Decode(line))

(* A selected line was handed to ret.insert in this step *)
Inserted ==
    /\ ipc = "lines"
    /\ Len(lines_read') = Len(lines_read) + 1
    /\ Len(lines_read') \in taken'

(* C11: when a selected line is handed to ret.insert, the set afterwards   *)
(* holds one entry for the line's (name, vers) key, and that entry's       *)
(* yanked and cksum are those of this line, the one inserted last.         *)
C11_LastWriteWins ==
    [][Inserted
          => /\ Cardinality({c \in ret' : CrateEq(c, Decode(LastLine'))}) = 1
             /\ Decode(LastLine') \in ret']_vars

(* C11, as ret.insert has it: the set holds at most one entry per key,     *)
(* and a selected line whose key the set already holds leaves the set as   *)
(* it was, so the entry keeps the yanked and cksum of the line inserted    *)
(* first; a selected line with a new key adds its own record.              *)
C11_FirstWriteKept ==
    [][/\ \A a, b \in ret' : CrateEq(a, b) => a = b
       /\ (Inserted /\ KeyHeld(ret, LastLine')) => ret' = ret
       /\ (Inserted /\ ~KeyHeld(ret, LastLine')) =>
              ret' = ret \cup {Decode(LastLine')}]_vars

(* C11 witness: two selected lines of one file with the same key and       *)
(* different cksum were handed to ret.insert; the set holds one entry,     *)
(* the first line's.                                                       *)
C11_Witness ==
    /\ settings.download_old
    /\ Len(lines_read) = 2
    /\ taken = {1, 2}
    /\ CrateEq(Decode(lines_read[1]), Decode(lines_read[2]))
    /\ lines_read[1].cksum # lines_read[2].cksum
    /\ ret = {Decode(lines_read[1])}

----------------------------------------------------------------------------
(* replace_url, and ConfigJsonFile::read and ::write.  config.json is a    *)
(* JSON object: a function from its keys to values, a value being <<s>>    *)
(* for the string s and <<>> for null.  A file that is no JSON object (a   *)
(* truncated one) is the object without keys.                              *)

(* The commits replace_url may add to the index repository *)
MaxCommits == 2

ApiUrl == "https://crates.io/"

Urls == {"https://crates.io/api/v1/crates", "https://a.example/dl", "https://b.example/dl"}

(* json::decode, lines 63-66: dl and api must be strings, dl_orig may be   *)
(* missing or null                                                         *)
Parses(d) ==
    /\ {"dl", "api"} \subseteq DOMAIN d
    /\ d["dl"] # <<>>
    /\ d["api"] # <<>>

ConfigDecode(d) ==
    ConfigJsonFile(d["dl"][1], d["api"][1],
                   IF "dl_orig" \in DOMAIN d THEN d["dl_orig"] ELSE <<>>)

(* json::encode, lines 73-74 *)
ConfigEncode(c) ==
    [k \in {"dl", "api", "dl_orig"} |->
        IF k = "dl" THEN <<c.dl>> ELSE IF k = "api" THEN <<c.api>> ELSE c.dl_orig]

ConfigFrame == UNCHANGED <<settings, fetchVars, indexVars>>

ConfigInit ==
    /\ settings = SettingsOf(TRUE, FALSE, FALSE, FALSE)
    /\ doc \in {[k \in {"dl", "api"} |-> IF k = "dl" THEN <<u>> ELSE <<ApiUrl>>] : u \in Urls}
               \cup {ConfigEncode(ConfigJsonFile(u, ApiUrl, <<>>)) : u \in Urls}
    /\ cpc = "idle"
    /\ new_url = ""
    /\ config = ConfigJsonFile("", "", <<>>)
    /\ commits = 0
    /\ FetchIdle
    /\ IndexIdle

(* main, lines 242-244: the program is run with --replace *)
CallReplaceUrl ==
    /\ cpc \in {"idle", "returned", "done", "exited"}
    /\ commits < MaxCommits
    /\ \E url \in Urls : new_url' = url
    /\ cpc' = "read"
    /\ UNCHANGED <<doc, config, commits>>
    /\ ConfigFrame

(* line 586, lines 48-67 *)
ReadConfig ==
    /\ cpc = "read"
    /\ \E io_ok \in BOOLEAN :
         IF io_ok /\ Parses(doc)
         THEN config' = ConfigDecode(doc) /\ cpc' = "compare"
         ELSE config' = config /\ cpc' = "exited"
    /\ UNCHANGED <<doc, new_url, commits>>
    /\ ConfigFrame

(* Mutant: no early return when the URL is the current one. *)
ReplaceUrlNoReturn ==
    /\ cpc = "compare"
    /\ config' = ConfigJsonFile(new_url, config.api,
                                IF config.dl_orig # <<>> THEN config.dl_orig
                                ELSE <<config.dl>>)
    /\ cpc' = "write"
    /\ UNCHANGED <<doc, new_url, commits>>
    /\ ConfigFrame

(* Mutant: dl_orig is set to the current dl at every change. *)
ReplaceUrlOverwrite ==
    /\ cpc = "compare"
    /\ IF new_url = config.dl
       THEN config' = config /\ cpc' = "returned"
       ELSE /\ config' = ConfigJsonFile(new_url, config.api, <<config.dl>>)
            /\ cpc' = "write"
    /\ UNCHANGED <<doc, new_url, commits>>
    /\ ConfigFrame

(* lines 588-599 *)
ReplaceUrl ==
    /\ cpc = "compare"
    /\ IF new_url = config.dl
       THEN config' = config /\ cpc' = "returned"
       ELSE /\ config' = ConfigJsonFile(new_url, config.api,
                                        IF config.dl_orig # <<>> THEN config.dl_orig
                                        ELSE <<config.dl>>)
            /\ cpc' = "write"
    /\ UNCHANGED <<doc, new_url, commits>>
    /\ ConfigFrame

(* line 601, lines 69-93: File::create truncates the file, write_all       *)
(* fills it; either may fail                                               *)
WriteConfig ==
    /\ cpc = "write"
    /\ \E outcome \in {"written", "not created", "truncated"} :
         /\ doc' = IF outcome = "written" THEN ConfigEncode(config)
                   ELSE IF outcome = "truncated" THEN <<>>
                   ELSE doc
         /\ cpc' = IF outcome = "written" THEN "commit" ELSE "exited"
    /\ UNCHANGED <<new_url, config, commits>>
    /\ ConfigFrame

(* lines 603-637: git add config.json, git commit *)
CommitConfig ==
    /\ cpc = "commit"
    /\ \E git_ok \in BOOLEAN :
         IF git_ok
         THEN commits' = commits + 1 /\ cpc' = "done"
         ELSE commits' = commits /\ cpc' = "exited"
    /\ UNCHANGED <<doc, new_url, config>>
    /\ ConfigFrame

ConfigNext ==
    \/ CallReplaceUrl
    \/ ReadConfig
    \/ ReplaceUrl
    \/ WriteConfig
    \/ CommitConfig

SpecConfig == ConfigInit /\ [][ConfigNext]_vars

----------------------------------------------------------------------------
(* Properties of replace_url, under SpecConfig *)

(* C8: an invocation whose URL is the dl of config.json returns at the     *)
(* comparison: config.json, and so its dl and dl_orig, and the commits     *)
(* stay as they are, in that step and in the steps of the invocation       *)
(* before it (the call and the read).                                      *)
C8_SameUrlNoOp ==
    [][/\ (cpc = "compare" /\ new_url = ConfigDecode(doc).dl)
            => /\ cpc' = "returned"
               /\ doc' = doc
               /\ commits' = commits
               /\ config' = config
       /\ cpc \in {"idle", "returned", "done", "exited", "read"}
            => (doc' = doc /\ commits' = commits)]_vars

(* C8 witness: after a first invocation changed and committed the URL, a   *)
(* second invocation with that URL returned early.                         *)
C8_Witness ==
    /\ cpc = "returned"
    /\ commits = 1
    /\ new_url = ConfigDecode(doc).dl
    /\ ConfigDecode(doc).dl_orig # <<>>

(* C9: a step that turns one readable config.json into another keeps a     *)
(* dl_orig that is set; sets an unset dl_orig to the dl of before if it     *)
(* changes dl; and leaves it unset if it does not.                         *)
C9_OriginalKept ==
    [][(Parses(doc) /\ Parses(doc'))
          => LET old == ConfigDecode(doc)
                 new == ConfigDecode(doc')
             IN  /\ old.dl_orig # <<>> => new.dl_orig = old.dl_orig
                 /\ old.dl_orig = <<>>
                      => new.dl_orig = IF new.dl # old.dl THEN <<old.dl>> ELSE <<>>]_vars

(* C9 witness: two invocations have each changed and committed the URL;    *)
(* dl_orig is set and is not the URL the second one replaced.              *)
C9_Witness ==
    /\ cpc = "done"
    /\ commits = 2
    /\ Parses(doc)
    /\ ConfigDecode(doc).dl_orig # <<>>
    /\ ConfigDecode(doc).dl_orig[1] # ConfigDecode(doc).dl

====
